---- MODULE Spec2Model ----
(***************************************************************************)
(* Model of app/strategy/service.py: the tolerant query-descriptor parser  *)
(* (_coerce_to_dict) and formatter (format_query_from_strat_name), and the  *)
(* services save_strategy_service, run_script, get_all_strategies_service  *)
(* over the rows of the store.                                             *)
(*                                                                         *)
(* Text is a sequence of one-character strings.  A Python object is a      *)
(* record [t |-> <type name>, v |-> <payload>]:                            *)
(*   NoneType <<>>, bool BOOLEAN, int Nat, float <<int part, fraction      *)
(*   digits>>, str text, list and tuple sequence of objects, dict sequence *)
(*   of <<key object, value object>> in insertion order.                   *)
(***************************************************************************)
EXTENDS Integers, Sequences, FiniteSets, TLC

(***************************** characters **********************************)

Digits == <<"0","1","2","3","4","5","6","7","8","9">>

IsDigit(c) == \E d \in 1..10 : Digits[d] = c

DigitVal(c) == (CHOOSE d \in 1..10 : Digits[d] = c) - 1

Upper == <<"A","B","C","D","E","F","G","H","I","J","K","L","M",
           "N","O","P","Q","R","S","T","U","V","W","X","Y","Z">>

Lower == <<"a","b","c","d","e","f","g","h","i","j","k","l","m",
           "n","o","p","q","r","s","t","u","v","w","x","y","z">>

IsAlnum(c) == IsDigit(c) \/ (\E k \in 1..26 : Upper[k] = c \/ Lower[k] = c)

\* the whitespace of the modelled texts is the space character
IsSpace(c) == c = " "

RECURSIVE Flatten(_)
\* the concatenation of the texts of ss (by halves: the depth stays small)
Flatten(ss) ==
    IF ss = <<>> THEN <<>>
    ELSE IF Len(ss) = 1 THEN ss[1]
    ELSE LET h == Len(ss) \div 2
         IN  Flatten(SubSeq(ss, 1, h)) \o Flatten(SubSeq(ss, h + 1, Len(ss)))

(***************************** Python objects ******************************)

PyNone == [t |-> "NoneType", v |-> <<>>]
PyBool(b) == [t |-> "bool", v |-> b]
PyInt(n) == [t |-> "int", v |-> n]
PyFloat(i, f) == [t |-> "float", v |-> <<i, f>>]
PyStr(s) == [t |-> "str", v |-> s]
PyList(xs) == [t |-> "list", v |-> xs]
PyTuple(xs) == [t |-> "tuple", v |-> xs]
PyDict(ps) == [t |-> "dict", v |-> ps]

IsDict(x) == x.t = "dict"
IsStr(x) == x.t = "str"
IsList(x) == x.t = "list"
IsTuple(x) == x.t = "tuple"

\* bool(x): the truth value Python's `not`, `and`, `or` use
Truthy(x) ==
    CASE x.t = "NoneType" -> FALSE
      [] x.t = "bool" -> x.v
      [] x.t = "int" -> x.v # 0
      [] x.t = "float" -> ~(x.v[1] = 0 /\ \A k \in 1..Len(x.v[2]) : x.v[2][k] = "0")
      [] OTHER -> Len(x.v) > 0

\* x or y
Or(x, y) == IF Truthy(x) THEN x ELSE y

\* x == y for two objects: types are compared before payloads, item by item
RECURSIVE Eq(_, _)
Eq(x, y) ==
    /\ x.t = y.t
    /\ CASE x.t \in {"list", "tuple"} ->
               /\ Len(x.v) = Len(y.v)
               /\ \A k \in 1..Len(x.v) : Eq(x.v[k], y.v[k])
         [] x.t = "dict" ->
               /\ Len(x.v) = Len(y.v)
               /\ \A k \in 1..Len(x.v) : Eq(x.v[k][1], y.v[k][1]) /\ Eq(x.v[k][2], y.v[k][2])
         [] OTHER -> x.v = y.v

IsKey(x, k) == IsStr(x) /\ x.v = k

HasKey(d, k) == \E j \in 1..Len(d.v) : IsKey(d.v[j][1], k)

\* d.get(k, dflt) on a dict d
DictGet(d, k, dflt) ==
    IF HasKey(d, k)
    THEN d.v[CHOOSE j \in 1..Len(d.v) : IsKey(d.v[j][1], k)][2]
    ELSE dflt

\* d[k] = x while a dict display or a JSON object is built: a repeated key
\* keeps its first position and takes the last value
DictPut(ps, k, x) ==
    IF \E j \in 1..Len(ps) : Eq(ps[j][1], k)
    THEN [j \in 1..Len(ps) |-> IF Eq(ps[j][1], k) THEN <<k, x>> ELSE ps[j]]
    ELSE Append(ps, <<k, x>>)

(***************************** numbers **************************************)

RECURSIVE DigitsVal(_)
\* int(<decimal digits>)
DigitsVal(ds) ==
    IF ds = <<>> THEN 0
    ELSE 10 * DigitsVal(SubSeq(ds, 1, Len(ds) - 1)) + DigitVal(ds[Len(ds)])

RECURSIVE IntStr(_)
\* str(n) of a non-negative int
IntStr(n) == IF n < 10 THEN <<Digits[n + 1]>> ELSE Append(IntStr(n \div 10), Digits[(n % 10) + 1])

RECURSIVE StripZeros(_)
\* the fraction digits of a float's shortest representation: trailing zeros
\* dropped, one digit kept
StripZeros(f) ==
    IF Len(f) > 1 /\ f[Len(f)] = "0" THEN StripZeros(SubSeq(f, 1, Len(f) - 1)) ELSE f

RECURSIVE DigitRunEnd(_, _)
\* the first position at or after i that holds no digit
DigitRunEnd(s, i) == IF i <= Len(s) /\ IsDigit(s[i]) THEN DigitRunEnd(s, i + 1) ELSE i

(***************************** the parsers ********************************)

(***************************************************************************)
(* json.loads and ast.literal_eval read the text character by character,   *)
(* as one pushdown automaton in two dialects, "json" and "py".  The texts  *)
(* are over letters, digits, the space and { } [ ] ( ) : , . " ' \ / ;     *)
(* what these characters cannot spell (signs, exponents, sets, string      *)
(* prefixes, the escapes a letter or a digit starts) is not modelled.      *)
(*                                                                         *)
(* The automaton's state: mode, the open containers (stack, innermost      *)
(* last), the text of the string or atom being read (buf), its quote (q),  *)
(* whether a backslash is pending (esc), and the finished value (result,   *)
(* once done).                                                             *)
(***************************************************************************)

Start ==
    [mode |-> "value", stack |-> <<>>, buf |-> <<>>, q |-> "", esc |-> FALSE,
     done |-> FALSE, result |-> PyNone]

\* an open container; comma: a comma has been read in it
Frame(kind) ==
    [kind |-> kind, items |-> <<>>, haskey |-> FALSE, key |-> PyNone, comma |-> FALSE]

\* an exception: a JSONDecodeError, a SyntaxError, a ValueError, a TypeError
Failed(st) == [st EXCEPT !.mode = "fail"]

Top(st) == st.stack[Len(st.stack)]

Pop(st) == [st EXCEPT !.stack = SubSeq(st.stack, 1, Len(st.stack) - 1)]

RECURSIVE Hashable(_)
\* a list or a dict is unhashable, and so is a tuple that holds one: a
\* TypeError as a dict key
Hashable(x) ==
    IF IsTuple(x) THEN \A k \in 1..Len(x.v) : Hashable(x.v[k])
    ELSE ~(IsList(x) \/ IsDict(x))

\* the value x is read: it is the result, an item of the innermost list or
\* tuple, or a key or a value of the innermost dict
Complete(st, x) ==
    IF st.stack = <<>> THEN [st EXCEPT !.mode = "after", !.done = TRUE, !.result = x]
    ELSE IF Top(st).kind \in {"list", "tuple"}
    THEN [st EXCEPT !.mode = "after",
                    !.stack[Len(st.stack)].items = Append(Top(st).items, x)]
    ELSE IF ~Top(st).haskey
    THEN IF Hashable(x)
         THEN [st EXCEPT !.mode = "colon",
                         !.stack[Len(st.stack)].haskey = TRUE,
                         !.stack[Len(st.stack)].key = x]
         ELSE Failed(st)
    ELSE [st EXCEPT !.mode = "after",
                    !.stack[Len(st.stack)].haskey = FALSE,
                    !.stack[Len(st.stack)].items = DictPut(Top(st).items, Top(st).key, x)]

\* ] } or ) closes the innermost container, which is then a value read; one
\* value in parentheses without a comma is that value, not a tuple
Close(st, c) ==
    IF st.stack = <<>> \/ Top(st).haskey THEN Failed(st)
    ELSE IF c = "]" /\ Top(st).kind = "list" THEN Complete(Pop(st), PyList(Top(st).items))
    ELSE IF c = "}" /\ Top(st).kind = "dict" THEN Complete(Pop(st), PyDict(Top(st).items))
    ELSE IF c = ")" /\ Top(st).kind = "tuple"
    THEN IF Len(Top(st).items) = 1 /\ ~Top(st).comma
         THEN Complete(Pop(st), Top(st).items[1])
         ELSE Complete(Pop(st), PyTuple(Top(st).items))
    ELSE Failed(st)

\* a key is due: the innermost container is a dict that holds no key yet
KeyDue(st) == st.stack # <<>> /\ Top(st).kind = "dict" /\ ~Top(st).haskey

\* c starts a value; a JSON key is a double-quoted string, a JSON string is
\* double-quoted
Begin(d, st, c) ==
    IF c = "\"" \/ (c = "'" /\ d = "py")
    THEN [st EXCEPT !.mode = "str", !.q = c, !.buf = <<>>, !.esc = FALSE]
    ELSE IF d = "json" /\ KeyDue(st) THEN Failed(st)
    ELSE IF c = "{" THEN [st EXCEPT !.mode = "first", !.stack = Append(st.stack, Frame("dict"))]
    ELSE IF c = "[" THEN [st EXCEPT !.mode = "first", !.stack = Append(st.stack, Frame("list"))]
    ELSE IF c = "(" /\ d = "py"
    THEN [st EXCEPT !.mode = "first", !.stack = Append(st.stack, Frame("tuple"))]
    ELSE IF IsAlnum(c) THEN [st EXCEPT !.mode = "atom", !.buf = <<c>>]
    ELSE Failed(st)

\* c follows a value: a comma, the end of the container, or the colon after a key
Delimiter(st, c) ==
    IF st.mode = "fail" \/ IsSpace(c) THEN st
    ELSE IF st.mode = "colon"
    THEN IF c = ":" THEN [st EXCEPT !.mode = "value"] ELSE Failed(st)
    ELSE IF st.stack = <<>> THEN Failed(st)
    ELSE IF c = "," THEN [st EXCEPT !.mode = "next", !.stack[Len(st.stack)].comma = TRUE]
    ELSE Close(st, c)

\* c inside a string.  json: \" \\ \/ stand for " \ /.  py: a backslash before
\* a quote or a backslash yields that character, and before another character
\* that starts no escape sequence both are kept.  The py string may go on in an
\* adjacent literal
InString(d, st, c) ==
    IF st.esc
    THEN IF c \in {"\"", "\\"} \/ (c = "/" /\ d = "json") \/ (c = "'" /\ d = "py")
         THEN [st EXCEPT !.esc = FALSE, !.buf = Append(st.buf, c)]
         ELSE IF d = "json" \/ IsAlnum(c) THEN Failed(st)
         ELSE [st EXCEPT !.esc = FALSE, !.buf = st.buf \o <<"\\", c>>]
    ELSE IF c = "\\" THEN [st EXCEPT !.esc = TRUE]
    ELSE IF c = st.q
    THEN IF d = "json" THEN Complete(st, PyStr(st.buf)) ELSE [st EXCEPT !.mode = "strend"]
    ELSE [st EXCEPT !.buf = Append(st.buf, c)]

\* the digits and the fraction digits of <digits> or <digits>.<digits>, as
\* [ok, whole, frac, float]: e is the end of the leading digits
Numeral(buf, e) ==
    [ok |-> /\ e > 1
            /\ e > Len(buf) \/ (buf[e] = "." /\ DigitRunEnd(buf, e + 1) > Len(buf)),
     whole |-> SubSeq(buf, 1, e - 1),
     frac |-> SubSeq(buf, e + 1, Len(buf)),
     float |-> e <= Len(buf)]

NoValue == [ok |-> FALSE, val |-> PyNone]
Value(x) == [ok |-> TRUE, val |-> x]

\* json: (0|[1-9]\d*)(\.\d+)?
JsonNumber(n) ==
    IF ~n.ok \/ (n.whole[1] = "0" /\ Len(n.whole) > 1) \/ (n.float /\ n.frac = <<>>)
    THEN NoValue
    ELSE IF n.float THEN Value(PyFloat(DigitsVal(n.whole), StripZeros(n.frac)))
    ELSE Value(PyInt(DigitsVal(n.whole)))

\* py: a decimal integer (no leading zero unless it is zero) or <digits>.<digits>*
PyNumber(n) ==
    IF ~n.ok \/ (~n.float /\ n.whole[1] = "0" /\ DigitsVal(n.whole) # 0) THEN NoValue
    ELSE IF n.float
    THEN Value(PyFloat(DigitsVal(n.whole),
                       IF n.frac = <<>> THEN <<"0">> ELSE StripZeros(n.frac)))
    ELSE Value(PyInt(DigitsVal(n.whole)))

\* the value of a number or a name; any other name is no literal
Atom(d, buf) ==
    IF d = "json"
    THEN IF buf = <<"n","u","l","l">> THEN Value(PyNone)
         ELSE IF buf = <<"t","r","u","e">> THEN Value(PyBool(TRUE))
         ELSE IF buf = <<"f","a","l","s","e">> THEN Value(PyBool(FALSE))
         ELSE JsonNumber(Numeral(buf, DigitRunEnd(buf, 1)))
    ELSE IF buf = <<"N","o","n","e">> THEN Value(PyNone)
         ELSE IF buf = <<"T","r","u","e">> THEN Value(PyBool(TRUE))
         ELSE IF buf = <<"F","a","l","s","e">> THEN Value(PyBool(FALSE))
         ELSE PyNumber(Numeral(buf, DigitRunEnd(buf, 1)))

\* the atom in buf ends
AtomEnd(st, atom) == IF atom.ok THEN Complete(st, atom.val) ELSE Failed(st)

\* one character
Step(d, st, c) ==
    IF st.mode = "fail" THEN st
    ELSE IF st.mode = "str" THEN InString(d, st, c)
    ELSE IF st.mode = "atom"
    THEN IF IsAlnum(c) \/ c = "." THEN [st EXCEPT !.buf = Append(st.buf, c)]
         ELSE Delimiter(AtomEnd(st, Atom(d, st.buf)), c)
    ELSE IF st.mode = "strend"
    THEN IF IsSpace(c) THEN st
         ELSE IF c \in {"\"", "'"} THEN [st EXCEPT !.mode = "str", !.q = c]
         ELSE Delimiter(Complete(st, PyStr(st.buf)), c)
    ELSE IF IsSpace(c) THEN st
    ELSE IF st.mode \in {"after", "colon"} THEN Delimiter(st, c)
    ELSE IF c \in {"]", "}", ")"} /\ (st.mode = "first" \/ (st.mode = "next" /\ d = "py"))
    THEN Close(st, c)
    ELSE Begin(d, st, c)

RECURSIVE Run(_, _, _, _, _)
\* the characters s[lo..hi], by halves; nothing is read after an exception
Run(d, st, s, lo, hi) ==
    IF lo > hi THEN st
    ELSE IF lo = hi THEN Step(d, st, s[lo])
    ELSE LET half == Run(d, st, s, lo, (lo + hi) \div 2)
         IN IF half.mode = "fail" THEN half
            ELSE Run(d, half, s, (lo + hi) \div 2 + 1, hi)

\* the end of the text: an atom or a py string ends there
AtEnd(d, st) ==
    IF st.mode = "atom" THEN AtomEnd(st, Atom(d, st.buf))
    ELSE IF st.mode = "strend" THEN Complete(st, PyStr(st.buf))
    ELSE st

\* the object, or an exception (ok = FALSE): one value must have been read,
\* with nothing open and nothing after it
Parsed(st) ==
    IF st.mode = "after" /\ st.done /\ st.stack = <<>> THEN Value(st.result) ELSE NoValue

\* json.loads(x): a TypeError for an x that is not text
JsonLoads(x) ==
    IF ~IsStr(x) THEN NoValue
    ELSE Parsed(AtEnd("json", Run("json", Start, x.v, 1, Len(x.v))))

\* ast.literal_eval(x) for text x
LiteralEval(x) == Parsed(AtEnd("py", Run("py", Start, x.v, 1, Len(x.v))))

(***************************** str methods **********************************)

RECURSIVE Join(_, _)
\* sep.join(parts)
Join(sep, parts) ==
    IF parts = <<>> THEN <<>>
    ELSE IF Len(parts) = 1 THEN parts[1]
    ELSE parts[1] \o sep \o Join(sep, Tail(parts))

RECURSIVE RStrip(_)
\* s.rstrip()
RStrip(s) == IF s # <<>> /\ IsSpace(s[Len(s)]) THEN RStrip(SubSeq(s, 1, Len(s) - 1)) ELSE s

RECURSIVE LStrip(_)
LStrip(s) == IF s # <<>> /\ IsSpace(s[1]) THEN LStrip(Tail(s)) ELSE s

\* s.strip()
Strip(s) == LStrip(RStrip(s))

RECURSIVE RStripChars(_, _)
\* s.rstrip(chars): every trailing character that is one of chars is removed
RStripChars(s, chars) ==
    IF s # <<>> /\ (\E k \in 1..Len(chars) : chars[k] = s[Len(s)])
    THEN RStripChars(SubSeq(s, 1, Len(s) - 1), chars) ELSE s

\* s.lower()
ToLower(s) ==
    [k \in 1..Len(s) |->
        IF \E u \in 1..26 : Upper[u] = s[k]
        THEN Lower[CHOOSE u \in 1..26 : Upper[u] = s[k]] ELSE s[k]]

\* s.replace(a, b) for one-character a and b
Replace(s, a, b) == [k \in 1..Len(s) |-> IF s[k] = a THEN b ELSE s[k]]

(***************************** str() and repr() *****************************)

TypeName(x) ==
    CASE x.t = "NoneType" -> <<"N","o","n","e","T","y","p","e">>
      [] x.t = "bool" -> <<"b","o","o","l">>
      [] x.t = "int" -> <<"i","n","t">>
      [] x.t = "float" -> <<"f","l","o","a","t">>
      [] x.t = "str" -> <<"s","t","r">>
      [] x.t = "list" -> <<"l","i","s","t">>
      [] x.t = "tuple" -> <<"t","u","p","l","e">>
      [] x.t = "dict" -> <<"d","i","c","t">>

Contains(s, c) == \E k \in 1..Len(s) : s[k] = c

\* repr of text: single quotes, unless the text holds a single quote and no
\* double quote; the backslash and the enclosing quote are escaped
ReprStr(s) ==
    LET q == IF Contains(s, "'") /\ ~Contains(s, "\"") THEN "\"" ELSE "'"
    IN  <<q>> \o Flatten([k \in 1..Len(s) |->
                   IF s[k] = "\\" \/ s[k] = q THEN <<"\\", s[k]>> ELSE <<s[k]>>]) \o <<q>>

RECURSIVE Repr(_)
\* repr(x)
Repr(x) ==
    CASE x.t = "NoneType" -> <<"N","o","n","e">>
      [] x.t = "bool" -> IF x.v THEN <<"T","r","u","e">> ELSE <<"F","a","l","s","e">>
      [] x.t = "int" -> IntStr(x.v)
      [] x.t = "float" -> IntStr(x.v[1]) \o <<".">> \o x.v[2]
      [] x.t = "str" -> ReprStr(x.v)
      [] x.t = "list" ->
            <<"[">> \o Join(<<",", " ">>, [k \in 1..Len(x.v) |-> Repr(x.v[k])]) \o <<"]">>
      [] x.t = "tuple" ->
            IF Len(x.v) = 1 THEN <<"(">> \o Repr(x.v[1]) \o <<",", ")">>
            ELSE <<"(">> \o Join(<<",", " ">>, [k \in 1..Len(x.v) |-> Repr(x.v[k])]) \o <<")">>
      [] x.t = "dict" ->
            <<"{">> \o Join(<<",", " ">>, [k \in 1..Len(x.v) |->
                          Repr(x.v[k][1]) \o <<":", " ">> \o Repr(x.v[k][2])]) \o <<"}">>

\* str(x), also what an f-string field {x} renders
ToStr(x) == IF IsStr(x) THEN x.v ELSE Repr(x)

(***************************** _coerce_to_dict ******************************)

Miss == [hit |-> FALSE, val |-> PyNone, trace |-> <<>>]
Hit(x, tr) == [hit |-> TRUE, val |-> x, trace |-> tr]
Tried(tr) == [hit |-> FALSE, val |-> PyNone, trace |-> tr]

\* if isinstance(parsed, dict): return parsed -- a hit; an exception or another
\* object is passed over; tr lists the parses run
DictOrPass(parsed, tr) == IF parsed.ok /\ IsDict(parsed.val) THEN Hit(parsed.val, tr) ELSE Tried(tr)

\* parsed = json.loads(possibly_json)
StrictStep(text) == DictOrPass(JsonLoads(text), <<"strict">>)

\* nested2 = ast.literal_eval(parsed), in the handler of json.loads(parsed)
NestedLiteral(nested, parsed) ==
    IF nested.ok THEN DictOrPass(nested, <<"literal", "nested_strict">>)
    ELSE DictOrPass(LiteralEval(parsed), <<"literal", "nested_strict", "nested_literal">>)

\* nested = json.loads(parsed), for a literal that is itself text
NestedStep(parsed) ==
    IF parsed.ok /\ IsStr(parsed.val) THEN NestedLiteral(JsonLoads(parsed.val), parsed.val)
    ELSE DictOrPass(parsed, <<"literal">>)

\* parsed = ast.literal_eval(possibly_json)
LiteralStep(text) == NestedStep(LiteralEval(text))

\* sanitized = possibly_json.replace("'", '"'); parsed = json.loads(sanitized)
SanitizeStep(text) == DictOrPass(JsonLoads(PyStr(Replace(text.v, "'", "\""))), <<"sanitize">>)

\* the steps fall through: the first hit is returned, with every parse run so far
AfterSanitize(tr, sanitize) ==
    IF sanitize.hit THEN Hit(sanitize.val, tr \o sanitize.trace)
    ELSE Tried(tr \o sanitize.trace)

AfterLiteral(text, tr, literal) ==
    IF literal.hit THEN Hit(literal.val, tr \o literal.trace)
    ELSE AfterSanitize(tr \o literal.trace, SanitizeStep(text))

AfterStrict(text, strict) ==
    IF strict.hit THEN strict ELSE AfterLiteral(text, strict.trace, LiteralStep(text))

\* a variant that repairs the quotes before any parse
SanitizeFirst(possibly_json) ==
    IF ~Truthy(possibly_json) \/ ~IsStr(possibly_json) THEN Miss
    ELSE AfterSanitize(<<>>, SanitizeStep(possibly_json))

\* _coerce_to_dict(possibly_json): val is the dict, or None; trace lists the
\* parses run, in order
_coerce_to_dict(possibly_json) ==
    IF ~Truthy(possibly_json) \/ ~IsStr(possibly_json) THEN Miss
    ELSE AfterStrict(possibly_json, StrictStep(possibly_json))

(***************************** format_query_from_strat_name *****************)

K_query == <<"q","u","e","r","y">>
K_filters == <<"f","i","l","t","e","r","s">>
K_Data == <<"D","a","t","a">>
K_data == <<"d","a","t","a">>
K_Operator == <<"O","p","e","r","a","t","o","r">>
K_operator == <<"o","p","e","r","a","t","o","r">>
K_param == <<"p","a","r","a","m">>
K_name == <<"n","a","m","e">>
K_field == <<"f","i","e","l","d">>
K_sign == <<"s","i","g","n">>
K_op == <<"o","p">>
K_threshold == <<"t","h","r","e","s","h","o","l","d">>
K_period == <<"p","e","r","i","o","d">>

NoQueryAvailable == <<"N","o"," ","q","u","e","r","y"," ","a","v","a","i","l","a","b","l","e">>
InvalidQueryFormat == <<"I","n","v","a","l","i","d"," ","q","u","e","r","y"," ","f","o","r","m","a","t">>
NoFiltersDefined == <<"N","o"," ","f","i","l","t","e","r","s"," ","d","e","f","i","n","e","d">>
NoValidFiltersFound == <<"N","o"," ","v","a","l","i","d"," ","f","i","l","t","e","r","s"," ","f","o","u","n","d">>
QueryParsingError == <<"Q","u","e","r","y"," ","p","a","r","s","i","n","g"," ","e","r","r","o","r",":"," ">>

\* sign_map: token -> symbol
sign_map ==
    << <<<<"g","t">>, <<">">>>>,
       <<<<"g","t","e">>, <<">","=">>>>,
       <<<<"l","t">>, <<"<">>>>,
       <<<<"l","t","e">>, <<"<","=">>>>,
       <<<<"e","q">>, <<"=">>>>,
       <<<<"n","e">>, <<"!","=">>>> >>

\* sign_map.get(key, dflt)
SignMapGet(key, dflt) ==
    IF \E k \in 1..Len(sign_map) : sign_map[k][1] = key
    THEN PyStr(sign_map[CHOOSE k \in 1..Len(sign_map) : sign_map[k][1] = key][2])
    ELSE dflt

\* how a statement ends: it returns v, or raises an exception whose message is v
Return(x) == [kind |-> "return", v |-> x]
Raise(msg) == [kind |-> "raise", v |-> msg]

\* x.get(...) on an x that is no dict: AttributeError
AttributeErrorGet(x) ==
    Raise(<<"'">> \o TypeName(x) \o <<"'"," ","o","b","j","e","c","t"," ","h","a","s"," ","n","o"," ","a","t","t","r","i","b","u","t","e"," ","'","g","e","t","'">>)

\* a variant that takes the value of 'Data' whenever the key is present
PresentKeyWins(filter_item) ==
    IF HasKey(filter_item, K_Data) THEN DictGet(filter_item, K_Data, PyNone)
    ELSE Or(DictGet(filter_item, K_data, PyNone), PyDict(<<>>))

\* data = filter_item.get('Data') or filter_item.get('data') or {}
ResolveData(filter_item) ==
    Or(Or(DictGet(filter_item, K_Data, PyNone), DictGet(filter_item, K_data, PyNone)),
       PyDict(<<>>))

\* operator = filter_item.get('Operator') or filter_item.get('operator') or ''
ResolveOperator(filter_item) ==
    Or(Or(DictGet(filter_item, K_Operator, PyNone), DictGet(filter_item, K_operator, PyNone)),
       PyStr(<<>>))

\* param_name = param.get('name') or param.get('field') or 'Unknown'
ResolveParamName(param) ==
    Or(Or(DictGet(param, K_name, PyNone), DictGet(param, K_field, PyNone)),
       PyStr(<<"U","n","k","n","o","w","n">>))

\* sign = data.get('sign') or data.get('op') or '='
ResolveSign(data) ==
    Or(Or(DictGet(data, K_sign, PyNone), DictGet(data, K_op, PyNone)), PyStr(<<"=">>))

\* threshold_str: the items of a list or a tuple comma-joined, anything else as
\* str() gives it
ThresholdStr(threshold) ==
    IF IsList(threshold) \/ IsTuple(threshold)
    THEN Join(<<",">>, [k \in 1..Len(threshold.v) |-> ToStr(threshold.v[k])])
    ELSE ToStr(threshold)

\* a variant that looks the token up as it is written
ReadableSignExact(sign) == SignMapGet(ToStr(sign), sign)

\* readable_sign = sign_map.get(str(sign).lower(), sign)
ReadableSign(sign) == SignMapGet(ToLower(ToStr(sign)), sign)

\* operator and isinstance(operator, str) and operator.strip()
AppendOperator(clause, operator) ==
    IF Truthy(operator) /\ IsStr(operator) /\ Strip(operator.v) # <<>>
    THEN clause \o <<" ">> \o Strip(operator.v)
    ELSE clause

\* the loop body for one mapping entry: the clause, or the AttributeError of
\* data.get / param.get on a value that is no mapping
RenderClause(filter_item) ==
    LET data == ResolveData(filter_item)
        operator == ResolveOperator(filter_item)
    IN  IF ~IsDict(data) THEN AttributeErrorGet(data)
        ELSE LET param == Or(DictGet(data, K_param, PyNone), PyDict(<<>>))
             IN  IF ~IsDict(param) THEN AttributeErrorGet(param)
                 ELSE LET param_name == ResolveParamName(param)
                          sign == ResolveSign(data)
                          threshold == DictGet(data, K_threshold, PyNone)
                          period == DictGet(data, K_period, PyInt(1))
                          clause == Strip(ToStr(param_name) \o <<" ">> \o ToStr(period)
                                          \o <<" ","Y","e","a","r","s"," ">> \o ToStr(ReadableSign(sign))
                                          \o <<" ">> \o ThresholdStr(threshold))
                      IN  Return(AppendOperator(clause, operator))

RECURSIVE RenderUnchecked(_, _, _)
\* a variant of the loop without the isinstance test: filter_item.get is called
\* on every entry
RenderUnchecked(filters, k, formatted_filters) ==
    IF k > Len(filters) THEN Return(formatted_filters)
    ELSE IF ~IsDict(filters[k]) THEN AttributeErrorGet(filters[k])
    ELSE LET clause == RenderClause(filters[k])
         IN  IF clause.kind = "raise" THEN clause
             ELSE RenderUnchecked(filters, k + 1, Append(formatted_filters, clause.v))

\* a variant of the loop that stops after the first clause
RenderFirstOnly(filters, k, formatted_filters) ==
    IF k > Len(filters) THEN Return(formatted_filters)
    ELSE IF ~IsDict(filters[k]) THEN Return(formatted_filters)
    ELSE LET clause == RenderClause(filters[k])
         IN  IF clause.kind = "raise" THEN clause ELSE Return(<<clause.v>>)

RECURSIVE RenderFilters(_, _, _)
\* for filter_item in filters, from the k-th on: entries that are no mapping are
\* skipped; an exception ends the loop
RenderFilters(filters, k, formatted_filters) ==
    IF k > Len(filters) THEN Return(formatted_filters)
    ELSE IF ~IsDict(filters[k]) THEN RenderFilters(filters, k + 1, formatted_filters)
    ELSE LET clause == RenderClause(filters[k])
         IN  IF clause.kind = "raise" THEN clause
             ELSE RenderFilters(filters, k + 1, Append(formatted_filters, clause.v))

\* a variant that joins and trims nothing
JoinUntrimmed(formatted_filters) == Join(<<" ">>, formatted_filters)

\* ' '.join(formatted_filters).rstrip().rstrip('AND').rstrip()
TrimResult(formatted_filters) ==
    RStrip(RStripChars(RStrip(Join(<<" ">>, formatted_filters)), <<"A","N","D">>))

\* query_data = json.loads(strat_name); except Exception: _coerce_to_dict(strat_name)
OrCoerce(direct, strat_name) ==
    IF direct.ok THEN Hit(direct.val, <<"strict">>)
    ELSE AfterSanitize(<<"strict">>, _coerce_to_dict(strat_name))

ParseInput(strat_name) == OrCoerce(JsonLoads(strat_name), strat_name)

\* inner_parsed = _coerce_to_dict(inner), for inner = query_data['query'] a text
UnwrapText(query_data, inner_parsed) ==
    Hit(IF IsDict(inner_parsed.val) THEN inner_parsed.val ELSE query_data, inner_parsed.trace)

\* the mapping nested under 'query', when there is one
UnwrapInner(query_data, inner) ==
    IF IsStr(inner) THEN UnwrapText(query_data, _coerce_to_dict(inner))
    ELSE IF IsDict(inner) THEN Hit(inner, <<>>)
    ELSE Hit(query_data, <<>>)

\* a variant that never unwraps
NoUnwrap(query_data) == Hit(query_data, <<>>)

UnwrapQuery(query_data) ==
    IF HasKey(query_data, K_query)
    THEN UnwrapInner(query_data, DictGet(query_data, K_query, PyNone))
    ELSE Hit(query_data, <<>>)

\* how the try body ends (kind, v), the parses it ran (attempts) and the mapping
\* whose filters it read (working; None before there is one)
Outcome(kind, x, attempts, working) ==
    [kind |-> kind, v |-> x, attempts |-> attempts, working |-> working]

\* if formatted_filters: return <joined and trimmed>; return "No valid filters found"
FormatRendered(rendered, attempts, query_data) ==
    IF rendered.kind = "raise" THEN Outcome("raise", rendered.v, attempts, query_data)
    ELSE IF rendered.v # <<>>
    THEN Outcome("return", TrimResult(rendered.v), attempts, query_data)
    ELSE Outcome("return", NoValidFiltersFound, attempts, query_data)

\* filters = query_data.get('filters')
FormatFilters(filters, attempts, query_data) ==
    IF ~IsList(filters) \/ Len(filters.v) = 0
    THEN Outcome("return", NoFiltersDefined, attempts, query_data)
    ELSE FormatRendered(RenderFilters(filters.v, 1, <<>>), attempts, query_data)

FormatUnwrapped(unwrapped, trace) ==
    FormatFilters(DictGet(unwrapped.val, K_filters, PyNone),
                  trace \o unwrapped.trace, unwrapped.val)

FormatParsed(parsed) ==
    IF ~IsDict(parsed.val) THEN Outcome("return", InvalidQueryFormat, parsed.trace, PyNone)
    ELSE FormatUnwrapped(UnwrapQuery(parsed.val), parsed.trace)

\* a variant that takes every input that is no text for an absent one
FormatBodyTextOnly(strat_name) ==
    IF ~Truthy(strat_name) \/ ~IsStr(strat_name)
    THEN Outcome("return", NoQueryAvailable, <<>>, PyNone)
    ELSE FormatParsed(ParseInput(strat_name))

\* a variant that parses before it looks at the input
FormatBodyParseFirst(strat_name) ==
    IF ~Truthy(strat_name)
    THEN Outcome("return", NoQueryAvailable, ParseInput(strat_name).trace, PyNone)
    ELSE FormatParsed(ParseInput(strat_name))

\* the body of the try statement
FormatBody(strat_name) ==
    IF ~Truthy(strat_name) THEN Outcome("return", NoQueryAvailable, <<>>, PyNone)
    ELSE FormatParsed(ParseInput(strat_name))

\* a variant without the handler: the exception reaches the caller
RaiseToCaller(body) == body

\* except Exception as e: return f"Query parsing error: {str(e)}"
ExceptException(body) ==
    IF body.kind = "raise"
    THEN [body EXCEPT !.kind = "return", !.v = QueryParsingError \o body.v]
    ELSE body

format_query_from_strat_name(strat_name) == ExceptException(FormatBody(strat_name))

(***************************** inputs ***************************************)

\* json.dumps(x), for the objects json.loads yields
JsonDumpsStr(s) ==
    <<"\"">> \o Flatten([k \in 1..Len(s) |->
                   IF s[k] = "\\" \/ s[k] = "\"" THEN <<"\\", s[k]>> ELSE <<s[k]>>]) \o <<"\"">>

RECURSIVE JsonDumps(_)
JsonDumps(x) ==
    CASE x.t = "NoneType" -> <<"n","u","l","l">>
      [] x.t = "bool" -> IF x.v THEN <<"t","r","u","e">> ELSE <<"f","a","l","s","e">>
      [] x.t = "int" -> IntStr(x.v)
      [] x.t = "float" -> IntStr(x.v[1]) \o <<".">> \o x.v[2]
      [] x.t = "str" -> JsonDumpsStr(x.v)
      [] x.t \in {"list", "tuple"} ->
            <<"[">> \o Join(<<",", " ">>, [k \in 1..Len(x.v) |-> JsonDumps(x.v[k])]) \o <<"]">>
      [] x.t = "dict" ->
            <<"{">> \o Join(<<",", " ">>, [k \in 1..Len(x.v) |->
                          JsonDumpsStr(x.v[k][1].v) \o <<":", " ">> \o JsonDumps(x.v[k][2])]) \o <<"}">>

\* a dict from <<key text, value>> pairs
Mk(ps) == PyDict([k \in 1..Len(ps) |-> <<PyStr(ps[k][1]), ps[k][2]>>])

\* the longest filters list of the inputs
MaxFilters == 2

EntryROE ==
    Mk(<< <<K_Data, Mk(<< <<K_param, Mk(<< <<K_name, PyStr(<<"R","O","E">>)>> >>)>>,
                          <<K_sign, PyStr(<<"g","t">>)>>,
                          <<K_threshold, PyFloat(0, <<"1","5">>)>>,
                          <<K_period, PyInt(5)>> >>)>>,
          <<K_Operator, PyStr(<<"A","N","D">>)>> >>)

EntryPE ==
    Mk(<< <<K_Data, Mk(<< <<K_param, Mk(<< <<K_name, PyStr(<<"P","E">>)>> >>)>>,
                          <<K_sign, PyStr(<<"l","t">>)>>,
                          <<K_threshold, PyInt(20)>> >>)>>,
          <<K_Operator, PyStr(<<"A","N","D">>)>> >>)

\* the alias keys, an upper-case token, a list threshold, a padded operator
EntryPB ==
    Mk(<< <<K_data, Mk(<< <<K_param, Mk(<< <<K_field, PyStr(<<"P","B">>)>> >>)>>,
                          <<K_op, PyStr(<<"G","T","E">>)>>,
                          <<K_threshold, PyList(<<PyInt(1), PyFloat(2, <<"5">>)>>)>> >>)>>,
          <<K_operator, PyStr(<<" ","O","R"," ">>)>> >>)

\* no operator, an unknown token, a threshold that ends in letters of "AND"
EntryDE ==
    Mk(<< <<K_Data, Mk(<< <<K_param, Mk(<< <<K_name, PyStr(<<"D","E">>)>> >>)>>,
                          <<K_sign, PyStr(<<"a","p","p","r","o","x">>)>>,
                          <<K_threshold, PyStr(<<"P","A","N","D","A">>)>> >>)>> >>)

\* the preferred keys Data and Operator present and empty beside their aliases
EntryEPS ==
    Mk(<< <<K_Data, Mk(<<>>)>>,
          <<K_data, Mk(<< <<K_param, Mk(<< <<K_name, PyStr(<<"E","P","S">>)>> >>)>>,
                          <<K_sign, PyStr(<<"n","e">>)>>,
                          <<K_threshold, PyNone>> >>)>>,
          <<K_Operator, PyStr(<<>>)>>,
          <<K_operator, PyStr(<<"O","R">>)>> >>)

\* the preferred keys name and sign present and empty beside their aliases
EntryF ==
    Mk(<< <<K_Data, Mk(<< <<K_param, Mk(<< <<K_name, PyStr(<<>>)>>,
                                           <<K_field, PyStr(<<"F">>)>> >>)>>,
                          <<K_sign, PyStr(<<>>)>>,
                          <<K_op, PyStr(<<"l","t","e">>)>>,
                          <<K_threshold, PyInt(3)>> >>)>>,
          <<K_Operator, PyStr(<<"N","A","N","D">>)>> >>)

\* both keys of each pair present and non-empty
EntryBoth ==
    Mk(<< <<K_Data, Mk(<< <<K_param, Mk(<< <<K_name, PyStr(<<"N">>)>>,
                                           <<K_field, PyStr(<<"G">>)>> >>)>>,
                          <<K_sign, PyStr(<<"g","t">>)>>,
                          <<K_op, PyStr(<<"l","t">>)>>,
                          <<K_threshold, PyInt(7)>> >>)>>,
          <<K_data, Mk(<< <<K_param, Mk(<< <<K_name, PyStr(<<"M">>)>> >>)>> >>)>>,
          <<K_Operator, PyStr(<<"A","N","D">>)>>,
          <<K_operator, PyStr(<<"O","R">>)>> >>)

\* Data that is no mapping
EntryTextData == Mk(<< <<K_Data, PyStr(<<"a","b","c">>)>> >>)

\* param that is no mapping
EntryListParam == Mk(<< <<K_Data, Mk(<< <<K_param, PyList(<<PyInt(1)>>)>> >>)>> >>)

\* an apostrophe in a value, a bool threshold, no period
EntryApostrophe ==
    Mk(<< <<K_Data, Mk(<< <<K_param, Mk(<< <<K_name, PyStr(<<"O","'","B">>)>> >>)>>,
                          <<K_sign, PyStr(<<"e","q">>)>>,
                          <<K_threshold, PyBool(TRUE)>> >>)>> >>)

\* an entry with neither Data nor Operator
EntryEmpty == Mk(<<>>)

\* an unknown token with an upper-case letter
EntryLike ==
    Mk(<< <<K_Data, Mk(<< <<K_param, Mk(<< <<K_name, PyStr(<<"S">>)>> >>)>>,
                          <<K_sign, PyStr(<<"L","i","k","e">>)>>,
                          <<K_threshold, PyStr(<<"a">>)>> >>)>> >>)

\* the entries of the inputs' filters lists; the first three may stand anywhere
\* in a list, the others end one
Entries ==
    <<EntryROE, EntryPB, PyStr(<<"x">>), EntryPE, EntryDE, EntryEPS, EntryF, EntryBoth,
      EntryTextData, EntryListParam, EntryApostrophe, EntryEmpty, PyInt(1), EntryLike>>

CoreEntries == {1, 2, 3}

\* the filters lists, as indices of Entries: up to MaxFilters entries
FilterLists ==
    {<<>>} \cup
    UNION {{Append(f, e) : f \in [1..n -> CoreEntries], e \in 1..Len(Entries)} :
               n \in 0..(MaxFilters - 1)}

ShortFilterLists == {f \in FilterLists : Len(f) <= 1}

FiltersOf(f) == PyList([k \in 1..Len(f) |-> Entries[f[k]]])

\* values of 'filters' that are no list, values of 'query' that are neither a
\* mapping nor the text of one, and inputs that are no mapping
Junk ==
    <<PyNone, PyBool(TRUE), PyInt(0), PyInt(5), PyFloat(0, <<"0">>), PyStr(<<>>),
      PyStr(<<"a","b","c">>), PyStr(<<"[","1","]">>), PyList(<<>>), PyList(<<PyInt(1)>>), Mk(<<>>),
      PyTuple(<<EntryPE>>)>>

Filters(x) == Mk(<< <<K_filters, x>> >>)

OuterFilters == PyList(<<EntryPE>>)

\* the object an input encodes: inner is a filters list or a piece of Junk
Build(shape, inner) ==
    CASE shape = "plain" -> Filters(inner)
      [] shape = "query_map" ->
            Mk(<< <<K_query, Filters(inner)>>, <<K_filters, OuterFilters>> >>)
      [] shape = "query_json" ->
            Mk(<< <<K_query, PyStr(JsonDumps(Filters(inner)))>>, <<K_filters, OuterFilters>> >>)
      [] shape = "query_repr" ->
            Mk(<< <<K_filters, OuterFilters>>, <<K_query, PyStr(Repr(Filters(inner)))>> >>)
      [] shape = "query_junk" -> Mk(<< <<K_query, inner>>, <<K_filters, OuterFilters>> >>)
      [] shape = "query_twice" ->
            Mk(<< <<K_query, Mk(<< <<K_query, Filters(inner)>>,
                                   <<K_filters, OuterFilters>> >>)>>,
                  <<K_filters, PyList(<<EntryDE>>)>> >>)
      [] shape = "no_filters" -> Mk(<< <<K_name, inner>> >>)
      [] shape = "top" -> inner

\* an input's source: a shape with a filters list f, or with the j-th piece of Junk
Sources ==
    {[shape |-> "plain", f |-> f, j |-> 0] : f \in FilterLists}
    \cup {[shape |-> sh, f |-> f, j |-> 0] :
            sh \in {"query_map", "query_json", "query_repr", "query_twice"},
            f \in ShortFilterLists}
    \cup {[shape |-> sh, f |-> <<>>, j |-> j] :
            sh \in {"plain", "query_junk", "no_filters", "top"}, j \in 1..Len(Junk)}

Inner(in) == IF in.j = 0 THEN FiltersOf(in.f) ELSE Junk[in.j]

Source(in) == Build(in.shape, Inner(in))

Encodings ==
    {"json", "repr", "padded_repr", "paren_repr", "json_json", "quoted_json", "repr_repr",
     "single_json", "cut_json", "object"}

\* the encodings that can hold a tuple: JSON text has none
LiteralEncodings == {"repr", "padded_repr", "paren_repr", "repr_repr", "object"}

HoldsTuple(in) == in.j # 0 /\ IsTuple(Junk[in.j])

\* strat_name for a source object x
Encode(enc, x) ==
    CASE enc = "json" -> PyStr(JsonDumps(x))
      [] enc = "repr" -> PyStr(Repr(x))
      [] enc = "padded_repr" -> PyStr(<<" ">> \o Repr(x) \o <<" ">>)
      [] enc = "paren_repr" -> PyStr(<<"(">> \o Repr(x) \o <<")">>)
      [] enc = "json_json" -> PyStr(JsonDumps(PyStr(JsonDumps(x))))
      [] enc = "quoted_json" -> PyStr(<<"'">> \o JsonDumps(x) \o <<"'">>)
      [] enc = "repr_repr" -> PyStr(Repr(PyStr(Repr(x))))
      [] enc = "single_json" -> PyStr(Replace(JsonDumps(x), "\"", "'"))
      [] enc = "cut_json" -> PyStr(SubSeq(JsonDumps(x), 1, Len(JsonDumps(x)) - 1))
      [] enc = "object" -> x

(***************************** the store ************************************)

(***************************************************************************)
(* A nullable column holds Null or Some(x).  The table of InputPortfolio   *)
(* rows is a sequence: the row at position k has id k (the autoincrement   *)
(* primary key), so that the sequence is in id order.  Of the columns, the *)
(* rows keep those the services read or write.                             *)
(***************************************************************************)

Null == <<>>
Some(x) == <<x>>

\* the most rows of a table before a service is called
MaxRows == 2

SessionIds == {"s1", "s2"}

\* the strat_name of the row with the given id: NULL, the text of a
\* descriptor, a text that is none
StratNameOf(id) ==
    CASE id % 3 = 1 -> PyStr(JsonDumps(Filters(PyList(<<EntryROE>>))))
      [] id % 3 = 2 -> PyNone
      [] OTHER -> PyStr(<<"a","b","c">>)

\* a row of InputPortfolio
InputPortfolio(id, strat_uuid, strat_name_alias, isPublic) ==
    [id |-> id, strat_uuid |-> strat_uuid, strat_name |-> StratNameOf(id),
     strat_name_alias |-> strat_name_alias, isPublic |-> isPublic]

\* what the columns strat_uuid, strat_name_alias, isPublic of a stored row hold
Columns ==
    [strat_uuid : {Null} \cup {Some(u) : u \in SessionIds},
     strat_name_alias : {Null, Some(""), Some("a")},
     isPublic : {0, 1}]

\* the tables of up to MaxRows rows
Tables ==
    UNION {{[k \in 1..n |-> InputPortfolio(k, c[k].strat_uuid, c[k].strat_name_alias,
                                           c[k].isPublic)] : c \in [1..n -> Columns]} :
              n \in 0..MaxRows}

\* a row of PortfolioStats, a row of CalYear: the id and the session they belong to
PortfolioStats(id, strat_uuid) == [id |-> id, strat_uuid |-> strat_uuid]
CalYear(id, session_id) == [id |-> id, session_id |-> session_id]

\* the ids of the rows a filter on strat_uuid == session_id selects (NULL is
\* equal to nothing)
Matching(rows, session_id) == {k \in 1..Len(rows) : rows[k].strat_uuid = Some(session_id)}

\* query.first() without an order: any one of the selected rows, 0 for None
First(selected) == IF selected = {} THEN {0} ELSE selected

(***************************** state machine ********************************)

VARIABLES
    input,       \* what strat_name was made from: [shape, f, j, enc]
    strat_name,  \* the argument of both calls
    formatted,   \* format_query_from_strat_name(strat_name), once called
    coerced,     \* _coerce_to_dict(strat_name), once called
    input_portfolio,  \* the rows of InputPortfolio
    portfolio_stats,  \* the rows of PortfolioStats
    cal_years,        \* the rows of CalYear
    response     \* the service called, its arguments and what came of it

vars == <<input, strat_name, formatted, coerced,
          input_portfolio, portfolio_stats, cal_years, response>>

store == <<input_portfolio, portfolio_stats, cal_years>>

NotFormatted == Outcome("none", <<>>, <<>>, PyNone)
NotCoerced == [called |-> FALSE, hit |-> FALSE, val |-> PyNone, trace |-> <<>>]

\* a call of a service: its name, its arguments, the rows before it, and how
\* it ended (kind "return" or "raise") with what
Response(op, args, before, end) ==
    [op |-> op, args |-> args, before |-> before, kind |-> end.kind, v |-> end.v]

NoResponse == Response("none", <<>>, <<>>, Return(<<>>))

Init ==
    /\ input \in {[shape |-> s.shape, f |-> s.f, j |-> s.j, enc |-> e] :
                    s \in Sources, e \in Encodings}
    /\ HoldsTuple(input) => input.enc \in LiteralEncodings
    /\ strat_name = Encode(input.enc, Source(input))
    /\ formatted = NotFormatted
    /\ coerced = NotCoerced
    /\ input_portfolio = <<>>
    /\ portfolio_stats = <<>>
    /\ cal_years = <<>>
    /\ response = NoResponse

\* a caller formats the stored descriptor
Format ==
    /\ formatted.kind = "none"
    /\ formatted' = format_query_from_strat_name(strat_name)
    /\ UNCHANGED <<input, strat_name, coerced, store, response>>

\* a caller coerces the stored descriptor
Coerce ==
    /\ ~coerced.called
    /\ LET c == _coerce_to_dict(strat_name)
       IN  coerced' = [called |-> TRUE, hit |-> c.hit, val |-> c.val, trace |-> c.trace]
    /\ UNCHANGED <<input, strat_name, formatted, store, response>>

Next == Format \/ Coerce

Spec == Init /\ [][Next]_vars

(***************************** the services ********************************)

HTTPException(status_code, detail) ==
    Raise([status_code |-> status_code, detail |-> detail])

\* the body of a SaveStrategyRequest
SaveStrategyRequest ==
    [session_id : SessionIds, strat_name_alias : {"", "b"}, isPublic : {0, 1}]

\* the assignments made to every row of the session rather than to one
AssignEvery(rows, k, request) ==
    [j \in 1..Len(rows) |->
        IF rows[j].strat_uuid = rows[k].strat_uuid
        THEN [rows[j] EXCEPT !.strat_name_alias = Some(request.strat_name_alias),
                             !.isPublic = request.isPublic]
        ELSE rows[j]]

\* the two assignments to the row the query returned, flushed by the commit
Assign(rows, k, request) ==
    [rows EXCEPT ![k].strat_name_alias = Some(request.strat_name_alias),
                 ![k].isPublic = request.isPublic]

\* save_strategy_service once the query returned portfolio_entry, the id of
\* a row or 0 for None: what it leaves in the table and how it ends
save_strategy_service(request, rows, portfolio_entry) ==
    IF portfolio_entry = 0
    THEN [rows |-> rows, end |-> HTTPException(404, "Strategy not found")]
    ELSE [rows |-> Assign(rows, portfolio_entry, request),
          end |-> Return([message |-> "Strategy updated successfully"])]

\* an exception that leaves run_script
Reraise(error) == Raise(error)

\* the handler around the body of run_script: the exception as a result
Failure(error) == Return([status |-> "Failure", error |-> error])

\* what a call of run_script meets outside the program: SCRIPT_PATH (unset,
\* naming no file, naming the script), and when the script runs its exit code,
\* whether it wrote the rows of the session, and where the database fails
Environment ==
    {e \in [path : {"unset", "missing", "exists"}, returncode : {0, 1},
            wrote : BOOLEAN, fault : {"none", "session", "query", "close"}] :
        /\ e.path # "exists" => (e.returncode = 0 /\ ~e.wrote)
        /\ (e.path # "exists" \/ e.returncode # 0) => e.fault = "none"}

\* run_script from the lookup of SCRIPT_PATH on, over the tables the script
\* left; input_portfolio_row is the id of the row the query returned, 0 for None
run_script(session_id, env, rows, stats, years, input_portfolio_row) ==
    CASE env.path = "unset" ->
            Failure("stat: path should be string, bytes, os.PathLike or integer, not NoneType")
      [] env.path = "missing" ->
            Return([status |-> "Failure", error |-> "Script file not found"])
      [] env.returncode # 0 -> Failure("Script execution failed: stderr")
      [] env.fault = "session" -> Failure("OperationalError")
      [] env.fault = "query" -> Failure("OperationalError")
      [] input_portfolio_row = 0 -> Failure("No input portfolio found for the session")
      [] env.fault = "close" -> Failure("OperationalError")
      [] OTHER ->
            Return([status |-> "Success",
                    output |->
                        [ippf |-> [strat_uuid |-> rows[input_portfolio_row].strat_uuid,
                                   strat_name |-> rows[input_portfolio_row].strat_name,
                                   id |-> IntStr(rows[input_portfolio_row].id)],
                         pfst |-> SelectSeq(stats, LAMBDA r : r.strat_uuid = session_id),
                         calyears |-> SelectSeq(years, LAMBDA r : r.session_id = session_id)],
                    strategy_id |-> session_id])

\* the names the module binds: its imports and its functions
ModuleNames ==
    {"SaveStrategyRequest", "subprocess", "json", "os", "sys", "ast", "InputPortfolio",
     "PortfolioStats", "CalYear", "Session", "HTTPException", "SessionLocal", "or_",
     "_coerce_to_dict", "format_query_from_strat_name", "run_script",
     "save_strategy_service", "get_all_strategies_user_service",
     "get_all_strategies_service_old", "get_all_strategies_service",
     "get_strategy_service"}

\* the evaluation of a global name finds it
Bound(name) == name \in ModuleNames

\* the filter of the listing: public, with an alias that is neither NULL nor empty
Public(row) ==
    /\ row.isPublic = 1
    /\ row.strat_name_alias # Null
    /\ row.strat_name_alias # Some("")

\* get_all_strategies_service over the rows in id order
get_all_strategies_service(page, page_size, rows) ==
    IF ~Bound("func")
    THEN Raise("name 'func' is not defined")
    ELSE LET offset == (page - 1) * page_size
             total_count == Len(SelectSeq(rows, Public))
             strategies == SubSeq(SelectSeq(rows, Public), offset + 1,
                                  IF offset + page_size < total_count
                                  THEN offset + page_size ELSE total_count)
         IN  Return([strategies |->
                        [k \in 1..Len(strategies) |->
                            [strategy |-> strategies[k].strat_name,
                             name |-> strategies[k].strat_name_alias,
                             strategy_id |-> strategies[k].strat_uuid,
                             formatted_query |->
                                format_query_from_strat_name(strategies[k].strat_name).v]],
                     pagination |->
                        [total |-> total_count, page |-> page, page_size |-> page_size,
                         total_pages |-> (total_count + page_size - 1) \div page_size]])

ServiceInit ==
    /\ input = [shape |-> "top", f |-> <<>>, j |-> 1, enc |-> "object"]
    /\ strat_name = PyNone
    /\ formatted = NotFormatted
    /\ coerced = NotCoerced
    /\ input_portfolio \in Tables
    /\ portfolio_stats = <<PortfolioStats(1, "s2")>>
    /\ cal_years = <<CalYear(1, "s1")>>
    /\ response = NoResponse

\* a client saves a strategy under an alias
SaveStrategy ==
    /\ response.op = "none"
    /\ \E request \in SaveStrategyRequest :
         \E portfolio_entry \in First(Matching(input_portfolio, request.session_id)) :
            LET done == save_strategy_service(request, input_portfolio, portfolio_entry)
            IN  /\ input_portfolio' = done.rows
                /\ response' = Response("save_strategy_service", request,
                                         input_portfolio, done.end)
    /\ UNCHANGED <<input, strat_name, formatted, coerced, portfolio_stats, cal_years>>

\* a client runs the backtest of a session: the script runs outside the
\* program and may write the rows of the session, then run_script reads them
RunScript ==
    /\ response.op = "none"
    /\ \E session_id \in SessionIds, env \in Environment :
         LET rows == IF env.wrote
                     THEN Append(input_portfolio,
                                 InputPortfolio(Len(input_portfolio) + 1, Some(session_id),
                                                Null, 0))
                     ELSE input_portfolio
             stats == IF env.wrote
                      THEN Append(portfolio_stats,
                                  PortfolioStats(Len(portfolio_stats) + 1, session_id))
                      ELSE portfolio_stats
             years == IF env.wrote
                      THEN Append(cal_years, CalYear(Len(cal_years) + 1, session_id))
                      ELSE cal_years
         IN  \E input_portfolio_row \in First(Matching(rows, session_id)) :
                /\ input_portfolio' = rows
                /\ portfolio_stats' = stats
                /\ cal_years' = years
                /\ response' = Response("run_script", [session_id |-> session_id, env |-> env],
                                         input_portfolio,
                                         run_script(session_id, env, rows, stats, years,
                                                    input_portfolio_row))
    /\ UNCHANGED <<input, strat_name, formatted, coerced>>

\* a client lists the public strategies, a page of them
GetAllStrategies ==
    /\ response.op = "none"
    /\ \E page \in 1..(MaxRows + 1), page_size \in 1..MaxRows :
         response' = Response("get_all_strategies_service",
                              [page |-> page, page_size |-> page_size], input_portfolio,
                              get_all_strategies_service(page, page_size, input_portfolio))
    /\ UNCHANGED <<input, strat_name, formatted, coerced, store>>

ServiceNext == SaveStrategy \/ RunScript \/ GetAllStrategies

ServiceSpec == ServiceInit /\ [][ServiceNext]_vars

(***************************** properties **********************************)

Returned == formatted.kind # "none"

IsPrefix(p, s) == Len(p) <= Len(s) /\ SubSeq(s, 1, Len(p)) = p

EndsWith(s, w) == Len(w) <= Len(s) /\ SubSeq(s, Len(s) - Len(w) + 1, Len(s)) = w

\* the number of places of s where w occurs
Count(s, w) == Cardinality({i \in 1..(Len(s) - Len(w) + 1) : SubSeq(s, i, i + Len(w) - 1) = w})

Sentinels == {NoQueryAvailable, InvalidQueryFormat, NoFiltersDefined, NoValidFiltersFound}

\* the filters list the formatter read
WorkingFilters == DictGet(formatted.working, K_filters, PyNone)

\* the formatter went through the loop and left it with clauses
Rendered ==
    /\ formatted.kind = "return"
    /\ IsDict(formatted.working)
    /\ IsList(WorkingFilters)
    /\ RenderFilters(WorkingFilters.v, 1, <<>>).kind = "return"
    /\ RenderFilters(WorkingFilters.v, 1, <<>>).v # <<>>

\* the clauses of the loop
Clauses == RenderFilters(WorkingFilters.v, 1, <<>>).v

\* the input is the JSON text of {"filters": <the entries f>}
PlainJson == input.enc = "json" /\ input.shape = "plain" /\ input.j = 0

\* C1: whatever the input, the formatter returns to its caller, and what it
\* returns is text: one of the four fixed sentinels, the text "Query parsing
\* error: " followed by a message, or the rendering of a filters list
C1_AlwaysReturnsText ==
    Returned =>
        /\ formatted.kind = "return"
        /\ formatted.v \in Seq(STRING)
        /\ \/ formatted.v \in Sentinels
           \/ IsPrefix(QueryParsingError, formatted.v)
           \/ Rendered

\* an entry whose Data is text made data.get raise, and the caller got the
\* error sentinel
C1_Witness ==
    /\ PlainJson /\ input.f = <<9>>
    /\ formatted.kind = "return"
    /\ formatted.v = QueryParsingError \o <<"'","s","t","r","'"," ","o","b","j","e","c","t"," ","h","a","s"," ","n","o"," ","a","t","t","r","i","b","u","t","e"," ","'","g","e","t","'">>

\* the joined clauses with trailing whitespace removed and then, if the text
\* ends with "AND", that occurrence and the whitespace before it removed
TrimLiteralAND(s) ==
    IF EndsWith(RStrip(s), <<"A","N","D">>)
    THEN RStrip(SubSeq(RStrip(s), 1, Len(RStrip(s)) - 3))
    ELSE RStrip(s)

\* C2: the returned query is the clauses joined by single spaces with only a
\* trailing literal "AND" (and the whitespace around it) removed
C2_OnlyLiteralANDRemoved ==
    Rendered => formatted.v = TrimLiteralAND(Join(<<" ">>, Clauses))

\* the threshold "PANDA" of the last clause lost its letters A, N, D, A
C2_Witness ==
    /\ PlainJson /\ input.f = <<5>>
    /\ formatted.kind = "return"
    /\ formatted.v = <<"D","E"," ","1"," ","Y","e","a","r","s"," ","a","p","p","r","o","x"," ","P">>

\* the strict JSON text of the mapping with the single ROE entry
RoundTripText ==
    <<"{","\"","f","i","l","t","e","r","s","\"",":"," ","[","{","\"","D","a","t","a","\"",":"," ","{","\"","p","a","r","a","m","\"",":"," ","{","\"","n","a","m","e","\"",":"," ","\"","R","O","E","\"","}",","," ","\"","s","i","g","n","\"",":"," ","\"","g","t","\"",","," ","\"","t","h","r","e","s","h","o","l","d","\"",":"," ","0",".","1","5",","," ","\"","p","e","r","i","o","d","\"",":"," ","5","}",","," ","\"","O","p","e","r","a","t","o","r","\"",":"," ","\"","A","N","D","\"","}","]","}">>

IsRoundTripInput == IsStr(strat_name) /\ strat_name.v = RoundTripText

\* C3 (as the code has it): the ROE mapping, as strict JSON text, formats to
\* "ROE 5 Years > 0.15": the entry's trailing connector is removed
C3_RoundTripTrimmed ==
    (IsRoundTripInput /\ Returned) => formatted.v = <<"R","O","E"," ","5"," ","Y","e","a","r","s"," ",">"," ","0",".","1","5">>

\* C3 as stated: the ROE mapping formats to "ROE 5 Years > 0.15 AND"
C3_RoundTripKeepsAND ==
    (IsRoundTripInput /\ Returned) => formatted.v = <<"R","O","E"," ","5"," ","Y","e","a","r","s"," ",">"," ","0",".","1","5"," ","A","N","D">>

C3_Witness == IsRoundTripInput /\ PlainJson /\ input.f = <<1>> /\ formatted.kind = "return"

NonEmptyText == IsStr(strat_name) /\ Truthy(strat_name)

\* C4: for a non-empty text the formatter answers "Invalid query format"
\* exactly when _coerce_to_dict finds no mapping in that text
C4_InvalidExactlyWhenNoMapping ==
    (NonEmptyText /\ Returned /\ coerced.called) =>
        ((formatted.v = InvalidQueryFormat) <=> ~coerced.hit)

\* a JSON string literal that wraps the JSON text of a mapping: _coerce_to_dict
\* finds the mapping, the formatter answers "Invalid query format"
C4_Witness ==
    /\ input.enc = "json_json" /\ input.shape = "plain" /\ input.f = <<1>>
    /\ coerced.called /\ coerced.hit
    /\ formatted.kind = "return" /\ formatted.v = InvalidQueryFormat

\* C5 (as the code has it): an input that is no text gives "No query
\* available" when it is falsy (None, False, 0, 0.0, an empty list or mapping)
\* and "Invalid query format" when it is truthy
C5_NonTextByTruth ==
    (~IsStr(strat_name) /\ Returned) =>
        formatted.v = IF Truthy(strat_name) THEN InvalidQueryFormat ELSE NoQueryAvailable

\* C5 as stated: every input that is no text gives "No query available"
C5_NonTextIsAbsent ==
    (~IsStr(strat_name) /\ Returned) => formatted.v = NoQueryAvailable

\* a mapping passed in place of text
C5_Witness ==
    /\ IsDict(strat_name) /\ Truthy(strat_name)
    /\ formatted.kind = "return" /\ formatted.v = InvalidQueryFormat

\* C6: the empty text and None give "No query available", and no parse has
\* been run when the formatter returns
C6_AbsentWithoutParsing ==
    (Returned /\ (strat_name.t = "NoneType" \/ (IsStr(strat_name) /\ strat_name.v = <<>>))) =>
        /\ formatted.v = NoQueryAvailable
        /\ formatted.attempts = <<>>

C6_Witness ==
    /\ IsStr(strat_name) /\ strat_name.v = <<>>
    /\ formatted.kind = "return" /\ formatted.v = NoQueryAvailable

\* the parses of _coerce_to_dict, in the order of its text
StrategyOrder == <<"strict", "literal", "nested_strict", "nested_literal", "sanitize">>

Rank(a) == CHOOSE k \in 1..Len(StrategyOrder) : StrategyOrder[k] = a

InOrder(tr) == \A i, j \in 1..Len(tr) : i < j => Rank(tr[i]) < Rank(tr[j])

Ran(a) == \E k \in 1..Len(coerced.trace) : coerced.trace[k] = a

\* C7: _coerce_to_dict runs its parses in the fixed order, starting with the
\* strict one; the literal parse runs exactly when the strict one gave no
\* mapping and the quote repair exactly when neither gave one; the result is
\* the mapping of the first that gave one, and None after all of them gave
\* none; the JSON text of a mapping comes back as that mapping, apostrophes
\* included, after the strict parse alone
C7_StrategyOrder ==
    (coerced.called /\ NonEmptyText) =>
        /\ coerced.trace # <<>> /\ coerced.trace[1] = "strict" /\ InOrder(coerced.trace)
        /\ Ran("literal") <=> ~StrictStep(strat_name).hit
        /\ Ran("sanitize") <=> (~StrictStep(strat_name).hit /\ ~LiteralStep(strat_name).hit)
        /\ coerced.hit =>
              /\ IsDict(coerced.val)
              /\ Eq(coerced.val,
                    IF StrictStep(strat_name).hit THEN StrictStep(strat_name).val
                    ELSE IF LiteralStep(strat_name).hit THEN LiteralStep(strat_name).val
                    ELSE SanitizeStep(strat_name).val)
        /\ ~coerced.hit =>
              /\ coerced.val.t = "NoneType"
              /\ Ran("literal") /\ Ran("sanitize")
        /\ (input.enc = "json" /\ IsDict(Source(input))) =>
              /\ coerced.hit /\ coerced.trace = <<"strict">>
              /\ Eq(coerced.val, Source(input))
        /\ (input.enc \in {"repr", "padded_repr"} /\ IsDict(Source(input))) =>
              /\ coerced.hit /\ ~Ran("sanitize")
              /\ Eq(coerced.val, Source(input))

\* the quote repair gave the mapping, after the strict and the literal parse
\* had failed
C7_Witness ==
    /\ coerced.called /\ coerced.hit
    /\ coerced.trace = <<"strict", "literal", "sanitize">>

\* the encodings that keep the source object: parsing the text gives it back
Faithful == input.enc \in {"json", "repr", "padded_repr"}

ClausePE == <<"P","E"," ","1"," ","Y","e","a","r","s"," ","<"," ","2","0">>

\* the mapping the formatter should read its filters from
ExpectedWorking ==
    CASE input.shape \in {"query_map", "query_json", "query_repr"} -> Filters(Inner(input))
      [] input.shape = "query_twice" -> DictGet(Source(input), K_query, PyNone)
      [] input.shape = "query_junk" ->
            IF IsDict(Inner(input)) THEN Inner(input) ELSE Source(input)

\* C8: under a `query` key, a mapping or the text of a mapping becomes the
\* working mapping; any other value leaves the outer mapping and its filters
\* in use; a `query` key of the unwrapped mapping is not followed
C8_UnwrapOnce ==
    (Returned /\ Faithful
       /\ input.shape \in {"query_map", "query_json", "query_repr", "query_twice", "query_junk"}) =>
        /\ IsDict(formatted.working)
        /\ Eq(formatted.working, ExpectedWorking)
        /\ input.shape = "query_twice" =>
              HasKey(formatted.working, K_query) /\ formatted.v = ClausePE
        /\ (input.shape = "query_junk" /\ ~IsDict(Inner(input))) => formatted.v = ClausePE

\* the unwrapped mapping holds a `query` key of its own, and its own filters
\* were rendered
C8_Witness ==
    /\ input.shape = "query_twice" /\ input.enc = "json" /\ input.f = <<2>>
    /\ formatted.kind = "return" /\ formatted.v = ClausePE
    /\ HasKey(formatted.working, K_query)

\* the clause of each of Entries, for those the loop renders
ExpectedClause ==
    << <<"R","O","E"," ","5"," ","Y","e","a","r","s"," ",">"," ","0",".","1","5"," ","A","N","D">>,
       <<"P","B"," ","1"," ","Y","e","a","r","s"," ",">","="," ","1",",","2",".","5"," ","O","R">>,
       <<>>,
       <<"P","E"," ","1"," ","Y","e","a","r","s"," ","<"," ","2","0"," ","A","N","D">>,
       <<"D","E"," ","1"," ","Y","e","a","r","s"," ","a","p","p","r","o","x"," ","P","A","N","D","A">>,
       <<"E","P","S"," ","1"," ","Y","e","a","r","s"," ","!","="," ","N","o","n","e"," ","O","R">>,
       <<"F"," ","1"," ","Y","e","a","r","s"," ","<","="," ","3"," ","N","A","N","D">>,
       <<"N"," ","1"," ","Y","e","a","r","s"," ",">"," ","7"," ","A","N","D">>,
       <<>>,
       <<>>,
       <<"O","'","B"," ","1"," ","Y","e","a","r","s"," ","="," ","T","r","u","e">>,
       <<"U","n","k","n","o","w","n"," ","1"," ","Y","e","a","r","s"," ","="," ","N","o","n","e">>,
       <<>>,
       <<"S"," ","1"," ","Y","e","a","r","s"," ","L","i","k","e"," ","a">> >>

ExpectedClauses == [k \in 1..Len(input.f) |-> ExpectedClause[input.f[k]]]

\* every clause holds this text once
ClauseMark == <<" ","Y","e","a","r","s"," ">>

\* an entry the loop renders: a mapping whose Data (or data) and whose param
\* are mappings, or are absent or falsy
ValidEntry(e) ==
    /\ IsDict(e)
    /\ IsDict(ResolveData(e))
    /\ IsDict(Or(DictGet(ResolveData(e), K_param, PyNone), PyDict(<<>>)))

\* C9 (as the code has it): when every entry of the filters list is a mapping
\* whose Data and param are mappings or falsy, the output is the entries'
\* clauses in input order, joined by single spaces, up to the trimmed end of
\* the last one: one clause per entry
C9_OneClausePerValidEntry ==
    (Returned /\ PlainJson /\ input.f # <<>>
       /\ \A k \in 1..Len(input.f) : ValidEntry(Entries[input.f[k]])) =>
        /\ IsPrefix(formatted.v, Join(<<" ">>, ExpectedClauses))
        /\ Count(formatted.v, ClauseMark) = Len(input.f)

\* C9 as stated: when every entry of the filters list is a mapping, the output
\* holds one clause per entry
C9_OneClausePerMapping ==
    (Returned /\ PlainJson /\ input.f # <<>>
       /\ \A k \in 1..Len(input.f) : IsDict(Entries[input.f[k]])) =>
        Count(formatted.v, ClauseMark) = Len(input.f)

\* two entries, two clauses, in order
C9_Witness ==
    /\ PlainJson /\ input.f = <<2, 6>>
    /\ formatted.kind = "return"
    /\ formatted.v = <<"P","B"," ","1"," ","Y","e","a","r","s"," ",">","="," ","1",",","2",".","5"," ","O","R"," ","E","P","S"," ","1"," ","Y","e","a","r","s"," ","!","="," ","N","o","n","e"," ","O","R">>

OneEntry(e) == PlainJson /\ input.f = <<e>> /\ Returned

\* C10 (as the code has it): of each pair of keys the preferred one is used
\* when its value is truthy (entry 8 holds both keys of every pair); the alias
\* is used when the preferred key is absent (entry 2) and also when the
\* preferred key is present with an empty value (entries 6 and 7)
C10_AliasWhenPreferredFalsy ==
    /\ OneEntry(8) => formatted.v = <<"N"," ","1"," ","Y","e","a","r","s"," ",">"," ","7">>
    /\ OneEntry(2) => formatted.v = <<"P","B"," ","1"," ","Y","e","a","r","s"," ",">","="," ","1",",","2",".","5"," ","O","R">>
    /\ OneEntry(6) => formatted.v = <<"E","P","S"," ","1"," ","Y","e","a","r","s"," ","!","="," ","N","o","n","e"," ","O","R">>
    /\ OneEntry(7) => IsPrefix(<<"F"," ","1"," ","Y","e","a","r","s"," ","<","="," ","3">>, formatted.v)

\* C10 as stated: the preferred key is used whenever it is present, an empty
\* Data and an empty Operator included, so that entry 6 renders from its
\* empty Data and without a connector
C10_AliasOnlyWhenPreferredAbsent ==
    /\ OneEntry(8) => formatted.v = <<"N"," ","1"," ","Y","e","a","r","s"," ",">"," ","7">>
    /\ OneEntry(2) => formatted.v = <<"P","B"," ","1"," ","Y","e","a","r","s"," ",">","="," ","1",",","2",".","5"," ","O","R">>
    /\ OneEntry(6) => formatted.v = <<"U","n","k","n","o","w","n"," ","1"," ","Y","e","a","r","s"," ","="," ","N","o","n","e">>

\* Data and Operator are present and empty, and the clause was rendered from
\* data and operator
C10_Witness ==
    /\ OneEntry(6)
    /\ HasKey(Entries[6], K_Data) /\ ~Truthy(DictGet(Entries[6], K_Data, PyNone))
    /\ HasKey(Entries[6], K_Operator) /\ ~Truthy(DictGet(Entries[6], K_Operator, PyNone))
    /\ formatted.v = <<"E","P","S"," ","1"," ","Y","e","a","r","s"," ","!","="," ","N","o","n","e"," ","O","R">>

IsMappingIndex(e) == IsDict(Entries[e])

\* the input is a faithful text of {"filters": <the entries f>}
PlainFaithful == Faithful /\ input.shape = "plain" /\ input.j = 0

\* what the formatter returns for the same mapping with the entries g
FormattedFor(g) ==
    format_query_from_strat_name(Encode(input.enc, Build("plain", FiltersOf(g)))).v

\* C11: entries of filters that are no mapping are skipped: a non-empty list
\* of such entries alone gives "No valid filters found", and a list that mixes
\* them with mappings gives what the list of its mappings alone gives
C11_NonMappingsSkipped ==
    (Returned /\ PlainFaithful /\ input.f # <<>>
       /\ \E k \in 1..Len(input.f) : ~IsMappingIndex(input.f[k])) =>
        IF \A k \in 1..Len(input.f) : ~IsMappingIndex(input.f[k])
        THEN formatted.v = NoValidFiltersFound
        ELSE formatted.v = FormattedFor(SelectSeq(input.f, IsMappingIndex))

\* the text "x" before the ROE entry: the ROE clause alone is returned
C11_Witness ==
    /\ PlainJson /\ input.f = <<3, 1>>
    /\ formatted.kind = "return" /\ formatted.v = <<"R","O","E"," ","5"," ","Y","e","a","r","s"," ",">"," ","0",".","1","5">>

\* a sequence: a list or a tuple
IsSequence(x) == IsList(x) \/ IsTuple(x)

\* C12: once there is a working mapping, the formatter answers "No filters
\* defined" exactly when the mapping has no `filters`, or a `filters` that is
\* no sequence, or an empty one
C12_NoFiltersExactlyWhenNoSequence ==
    (Returned /\ IsDict(formatted.working)) =>
        ((formatted.v = NoFiltersDefined)
            <=> ~(IsSequence(WorkingFilters) /\ Len(WorkingFilters.v) > 0))

\* the Python-literal text of a mapping whose `filters` is a tuple of one
\* entry: the formatter answers "No filters defined"
C12_Witness ==
    /\ input.enc = "repr" /\ input.shape = "plain" /\ input.j # 0
    /\ IsTuple(Inner(input)) /\ Len(Inner(input).v) > 0
    /\ IsDict(formatted.working) /\ IsTuple(WorkingFilters)
    /\ formatted.kind = "return" /\ formatted.v = NoFiltersDefined

\* the one clause of the output holds the symbol sym in the sign position
HasSign(sym) == Count(formatted.v, ClauseMark \o sym \o <<" ">>) = 1

\* C13: the tokens gt, gte, lt, lte, eq, ne render as > >= < <= = !=, in any
\* case ("GTE" of entry 2); a token that is not in the table renders as it is
\* written ("approx" of entry 5, "Like" of entry 14); an entry without sign
\* and op renders "=" (entry 12)
C13_SignTable ==
    /\ OneEntry(1) => HasSign(<<">">>)
    /\ OneEntry(2) => HasSign(<<">","=">>)
    /\ OneEntry(4) => HasSign(<<"<">>)
    /\ OneEntry(7) => HasSign(<<"<","=">>)
    /\ OneEntry(11) => HasSign(<<"=">>)
    /\ OneEntry(6) => HasSign(<<"!","=">>)
    /\ OneEntry(5) => HasSign(<<"a","p","p","r","o","x">>)
    /\ OneEntry(14) => HasSign(<<"L","i","k","e">>)
    /\ OneEntry(12) => HasSign(<<"=">>)

\* the token "GTE" under the alias op rendered as ">="
C13_Witness ==
    /\ OneEntry(2)
    /\ IsKey(DictGet(DictGet(Entries[2], K_data, PyNone), K_op, PyNone), <<"G","T","E">>)
    /\ formatted.v = <<"P","B"," ","1"," ","Y","e","a","r","s"," ",">","="," ","1",",","2",".","5"," ","O","R">>


(***************************** properties of the services *******************)

Saved == response.op = "save_strategy_service"

\* row k of the table is the row it was but for the two columns of the request
Updated(k) ==
    /\ input_portfolio[k].strat_name_alias = Some(response.args.strat_name_alias)
    /\ input_portfolio[k].isPublic = response.args.isPublic
    /\ input_portfolio[k].id = response.before[k].id
    /\ input_portfolio[k].strat_uuid = response.before[k].strat_uuid
    /\ input_portfolio[k].strat_name = response.before[k].strat_name

\* C14: save_strategy_service raises the 404 error "Strategy not found" and
\* leaves the store as it was when no row has the request's session id as
\* strat_uuid; otherwise it sets the alias and the public flag of one row of
\* that session (the row the query returned first) to the request's values,
\* leaves every other column and every other row as they were, and returns
\* the success message.
C14_SaveOneRowOrNotFound ==
    Saved =>
        /\ portfolio_stats = <<PortfolioStats(1, "s2")>>
        /\ cal_years = <<CalYear(1, "s1")>>
        /\ Len(input_portfolio) = Len(response.before)
        /\ IF Matching(response.before, response.args.session_id) = {}
           THEN /\ response.kind = "raise"
                /\ response.v.status_code = 404
                /\ response.v.detail = "Strategy not found"
                /\ input_portfolio = response.before
           ELSE /\ response.kind = "return"
                /\ response.v = [message |-> "Strategy updated successfully"]
                /\ \E k \in Matching(response.before, response.args.session_id) :
                      /\ Updated(k)
                      /\ \A j \in 1..Len(input_portfolio) :
                            j # k => input_portfolio[j] = response.before[j]

\* a save that changed one of two rows of the same session
C14_Witness ==
    /\ Saved
    /\ response.kind = "return"
    /\ Cardinality(Matching(response.before, response.args.session_id)) = 2
    /\ input_portfolio # response.before


ScriptRan == response.op = "run_script"

\* the script file exists, the script exited with code 0, the database did
\* not fail, and a row of the session is in the table the script left
ScriptSucceeded ==
    /\ response.args.env.path = "exists"
    /\ response.args.env.returncode = 0
    /\ response.args.env.fault = "none"
    /\ Matching(input_portfolio, response.args.session_id) # {}

\* C15: run_script never raises to its caller and returns a status of Success
\* or Failure: Success, with the session id as strategy_id and with the output,
\* when the script file exists, the script exited with code 0 and a row of the
\* session is found after the script finished; in every other outcome
\* (SCRIPT_PATH unset, file missing, non-zero exit, no row, database fault)
\* Failure with an error message and no output.
C15_RunScriptNeverRaises ==
    ScriptRan =>
        /\ response.kind = "return"
        /\ response.v.status \in {"Success", "Failure"}
        /\ IF ScriptSucceeded
           THEN /\ response.v.status = "Success"
                /\ DOMAIN response.v = {"status", "output", "strategy_id"}
                /\ response.v.strategy_id = response.args.session_id
                /\ response.v.output.ippf.strat_uuid = Some(response.args.session_id)
           ELSE /\ response.v.status = "Failure"
                /\ DOMAIN response.v = {"status", "error"}
                /\ response.v.error # ""

\* a run that succeeded on the row the script wrote: the table had no row of
\* the session before
C15_Witness ==
    /\ ScriptRan
    /\ response.kind = "return"
    /\ response.v.status = "Success"
    /\ Matching(response.before, response.args.session_id) = {}
    /\ Len(response.v.output.pfst) = 1


Listed == response.op = "get_all_strategies_service"

\* the ids of the public rows with an alias, in id order
PublicIds == SelectSeq([k \in 1..Len(input_portfolio) |-> k],
                       LAMBDA k : /\ input_portfolio[k].isPublic = 1
                                  /\ input_portfolio[k].strat_name_alias \notin {Null, Some("")})

\* the ids of the page: those at positions (page-1)*page_size + 1 to
\* page*page_size of the public rows, or as many as there are
PageIds ==
    SubSeq(PublicIds, (response.args.page - 1) * response.args.page_size + 1,
           IF response.args.page * response.args.page_size < Len(PublicIds)
           THEN response.args.page * response.args.page_size ELSE Len(PublicIds))

\* C16: for page >= 1 and page_size >= 1 get_all_strategies_service
\* completes without a fault and returns the rows at positions
\* (page-1)*page_size onward, page_size of them at most, of the id-ordered
\* public rows with a non-empty alias, with total their number and
\* total_pages the ceiling of total / page_size.
C16_ListsThePage ==
    Listed =>
        /\ response.kind = "return"
        /\ Len(response.v.strategies) = Len(PageIds)
        /\ \A k \in 1..Len(PageIds) :
              /\ response.v.strategies[k].strategy_id = input_portfolio[PageIds[k]].strat_uuid
              /\ response.v.strategies[k].name = input_portfolio[PageIds[k]].strat_name_alias
        /\ response.v.pagination.total = Len(PublicIds)
        /\ response.v.pagination.total_pages * response.args.page_size >= Len(PublicIds)
        /\ (response.v.pagination.total_pages - 1) * response.args.page_size < Len(PublicIds)

\* a listing of the first page of a table with a public row, ended by the
\* NameError of line 449
C16_Witness ==
    /\ Listed
    /\ response.kind = "raise"
    /\ response.v = "name 'func' is not defined"
    /\ response.args.page = 1
    /\ Len(PublicIds) > 0

====
